---- MODULE Spec2Model ----
(***************************************************************************)
(* AlertsList (alerts_list.tsx): the alert list view of the triggers and   *)
(* actions UI.  The component's useState cells are the variables, every    *)
(* event handler and every promise continuation is one action, and the     *)
(* useEffect hooks run inside the action that changes their dependencies   *)
(* (React flushes pending effects before it processes any further update,  *)
(* so no handler or continuation observes the state between a commit and   *)
(* its effects).                                                           *)
(***************************************************************************)
EXTENDS Integers, Sequences, FiniteSets, TLC

\* ------------------------------------------------------------- bounds ----
MaxFetches == 2        \* alert-list fetches issued in one view session
MaxPageIndex == 1      \* page indices offered by the table's pagination
MaxTypes == 2          \* alert types in the catalog the backend returns

\* ---------------------------------------------------------- constants ----
InitialPageIndex == 0
InitialPageSize == 10

\* The value of a useState<T | undefined> cell that holds undefined.
Undefined == "<undefined>"

UnableToLoadAlertsMessage == "Unable to load alerts"
UnableToLoadAlertTypesMessage == "Unable to load alert types"

\* ------------------------------------------------------ input domains ----
\* AlertType: { id, name }
AlertTypeUniverse ==
    { [id |-> "t1", name |-> "Threshold"],
      [id |-> "t2", name |-> "alpha"],
      [id |-> "t3", name |-> "Zeta"] }

\* Property names every plain object literal inherits from Object.prototype,
\* and the `name` property of the inherited value ({}.constructor is the
\* function Object, whose name is "Object").
ObjectPrototypeName == [constructor |-> "Object"]

\* Alert: { id, name, tags, alertTypeId, interval }
Alert1 == [id |-> "a1", name |-> "cpu", tags |-> <<>>,
           alertTypeId |-> "t1", interval |-> "1m"]
Alert2 == [id |-> "a2", name |-> "disk", tags |-> <<"a", "b">>,
           alertTypeId |-> "t9", interval |-> "5m"]
Alert3 == [id |-> "a3", name |-> "mem", tags |-> <<"b">>,
           alertTypeId |-> "constructor", interval |-> "1h"]

\* loadAlerts resolves with { data: Alert[], total: number }
AlertsResponses ==
    { [data |-> <<>>, total |-> 0],
      [data |-> <<Alert1, Alert2>>, total |-> 2],
      [data |-> <<Alert3, Alert1>>, total |-> 12] }

RECURSIVE SeqsUpTo(_, _)
\* the sequences over S of length at most n
SeqsUpTo(S, n) ==
    IF n = 0 THEN { <<>> }
    ELSE LET shorter == SeqsUpTo(S, n - 1)
         IN  shorter \cup
             { Append(s, x) : s \in { t \in shorter : Len(t) = n - 1 },
                              x \in S }

Distinct(s) == \A i, j \in 1..Len(s) : i # j => s[i] # s[j]

\* loadAlertTypes resolves with AlertType[]; the registry is keyed by id
AlertTypeCatalogs ==
    { s \in SeqsUpTo(AlertTypeUniverse, MaxTypes) : Distinct(s) }

Pages == [index : 0..MaxPageIndex, size : {InitialPageSize}]
SearchTexts == { Undefined, "cpu" }
TagsFilters == { <<>>, <<"a">> }
TypesFilters == { <<>>, <<"t1">> }

\* ------------------------------------------------------------- state -----
VARIABLES
    canDelete,            \* capabilities.get().alerting.delete
    mounted,              \* the mount effects have run
    alertTypesIndex,      \* [defined, entries]: entries in insertion order
    alerts,
    data,
    selectedIds,
    isLoadingAlertTypes,
    isLoadingAlerts,
    isPerformingAction,
    totalItemCount,
    page,
    searchText,
    tagsFilter,
    typesFilter,
    inflight,             \* loadAlerts promises not yet settled
    typesRequest,         \* the loadAlertTypes promise: none/pending/resolved/rejected
    toasts,               \* titles given to toastNotifications.addDanger
    issued,               \* loadAlerts calls so far
    typesRequested,       \* loadAlertTypes calls so far
    filterFetches,        \* loadAlerts calls made by the reload effect
    changes,              \* user changes of page / search text / filters
    resolved,             \* loadAlerts promises resolved so far
    rejected,             \* loadAlerts promises rejected so far
    lastResponse,         \* the loadAlerts response applied last
    typesResponse         \* what loadAlertTypes resolved with

stateVars == <<alertTypesIndex, alerts, data, selectedIds, isLoadingAlertTypes,
               isLoadingAlerts, isPerformingAction, totalItemCount, page,
               searchText, tagsFilter, typesFilter>>
envVars == <<canDelete, mounted, inflight, typesRequest, toasts>>
histVars == <<issued, typesRequested, filterFetches, changes, resolved,
              rejected, lastResponse, typesResponse>>
vars == <<stateVars, envVars, histVars>>

\* the arguments loadAlertsData passes to loadAlerts
Params ==
    [page |-> page, searchText |-> searchText,
     tagsFilter |-> tagsFilter, typesFilter |-> typesFilter]

UndefinedIndex == [defined |-> FALSE, entries |-> <<>>]

Init ==
    /\ canDelete \in BOOLEAN
    /\ mounted = FALSE
    /\ alertTypesIndex = UndefinedIndex
    /\ alerts = <<>>
    /\ data = <<>>
    /\ selectedIds = <<>>
    /\ isLoadingAlertTypes = FALSE
    /\ isLoadingAlerts = FALSE
    /\ isPerformingAction = FALSE
    /\ totalItemCount = 0
    /\ page = [index |-> InitialPageIndex, size |-> InitialPageSize]
    /\ searchText = Undefined
    /\ tagsFilter = <<>>
    /\ typesFilter = <<>>
    /\ inflight = {}
    /\ typesRequest = "none"
    /\ toasts = <<>>
    /\ issued = 0
    /\ typesRequested = 0
    /\ filterFetches = 0
    /\ changes = 0
    /\ resolved = 0
    /\ rejected = 0
    /\ lastResponse = [id |-> 0, params |-> Params, data |-> <<>>, total |-> 0]
    /\ typesResponse = <<>>

\* ---------------------------------------------------- pure functions ----
RECURSIVE join(_, _)
\* Array.prototype.join: the elements separated by sep, "" for no element
join(strings, sep) ==
    IF Len(strings) = 0 THEN ""
    ELSE IF Len(strings) = 1 THEN strings[1]
    ELSE strings[1] \o sep \o join(Tail(strings), sep)

\* index[alertType.id] = alertType: a new key is appended to the object's
\* keys, an existing key keeps its place and gets the new value
IndexPut(entries, alertType) ==
    IF \E i \in 1..Len(entries) : entries[i].id = alertType.id
    THEN [i \in 1..Len(entries) |->
            IF entries[i].id = alertType.id THEN alertType ELSE entries[i]]
    ELSE Append(entries, alertType)

RECURSIVE BuildIndex(_, _)
\* const index = {}; for (const alertType of alertTypes) index[alertType.id] = alertType
BuildIndex(entries, alertTypes) ==
    IF alertTypes = <<>> THEN entries
    ELSE BuildIndex(IndexPut(entries, Head(alertTypes)), Tail(alertTypes))

HasOwnEntry(index, key) == \E i \in 1..Len(index.entries) : index.entries[i].id = key
OwnEntry(index, key) ==
    index.entries[CHOOSE i \in 1..Len(index.entries) : index.entries[i].id = key]

\* alertTypesIndex[key] ? alertTypesIndex[key].name : otherwise
\* A property read on an object literal finds the object's own entry, then
\* what Object.prototype provides under that name, then undefined.
ResolveAlertType(index, key) ==
    IF HasOwnEntry(index, key) THEN OwnEntry(index, key).name
    ELSE IF key \in DOMAIN ObjectPrototypeName THEN ObjectPrototypeName[key]
    ELSE key

\* alerts.map(alert => ({ ...alert, tagsText, alertType }))
updatedData(alertList, index) ==
    [i \in 1..Len(alertList) |->
        [tagsText |-> join(alertList[i].tags, ", "),
         alertType |-> ResolveAlertType(index, alertList[i].alertTypeId)]
        @@ alertList[i]]

RECURSIVE pickFromData(_, _)
\* for each id, in order, the first row of data with that id, if any
pickFromData(rows, ids) ==
    IF ids = <<>> THEN <<>>
    ELSE LET matches == { i \in 1..Len(rows) : rows[i].id = Head(ids) }
             rest == pickFromData(rows, Tail(ids))
         IN  IF matches = {} THEN rest
             ELSE <<rows[CHOOSE i \in matches : \A j \in matches : i <= j]>> \o rest

\* String.prototype.localeCompare on the names of the catalog: negative,
\* zero or positive; letter case is a lower-level difference than the letter
LocaleOrder == <<"alpha", "Object", "Threshold", "Zeta">>
LocaleRank(name) == CHOOSE i \in 1..Len(LocaleOrder) : LocaleOrder[i] = name
localeCompare(a, b) == LocaleRank(a) - LocaleRank(b)

RECURSIVE InsertSorted(_, _)
\* x placed after every element that does not compare greater (stable)
InsertSorted(sorted, x) ==
    IF sorted = <<>> THEN <<x>>
    ELSE IF localeCompare(Head(sorted).name, x.name) <= 0
         THEN <<Head(sorted)>> \o InsertSorted(Tail(sorted), x)
         ELSE <<x>> \o sorted

RECURSIVE sort(_)
\* Array.prototype.sort((a, b) => a.name.localeCompare(b.name))
sort(options) ==
    IF options = <<>> THEN <<>>
    ELSE InsertSorted(sort(SubSeq(options, 1, Len(options) - 1)),
                      options[Len(options)])

\* the options prop of TypeFilter
TypeFilterOptions_Unsorted ==
    [i \in 1..Len(alertTypesIndex.entries) |->
        [value |-> alertTypesIndex.entries[i].id,
         name |-> alertTypesIndex.entries[i].name]]

TypeFilterOptions ==
    sort([i \in 1..Len(alertTypesIndex.entries) |->
            [value |-> alertTypesIndex.entries[i].id,
             name |-> alertTypesIndex.entries[i].name]])

\* the selection prop of EuiBasicTable: canDelete && { onSelectionChange }
selection_Always == TRUE

selection == canDelete

\* the toolsLeft prop of EuiSearchBar
toolsLeft ==
    IF Len(selectedIds) = 0 \/ ~canDelete THEN <<>>
    ELSE << [component |-> "BulkActionPopover",
             selectedItems |-> pickFromData(data, selectedIds)] >>

\* the loading prop of EuiBasicTable
loading == isLoadingAlerts \/ isLoadingAlertTypes \/ isPerformingAction

\* ------------------------------------------------------------ effects ----
\* loadAlertsData up to its await: setIsLoadingAlerts(true), then loadAlerts
\* is called with the page and filters of the render whose closure runs
loadAlertsData(params) ==
    /\ isLoadingAlerts' = TRUE
    /\ inflight' = inflight \cup { [id |-> issued + 1, params |-> params] }
    /\ issued' = issued + 1

\* useEffect(() => { loadAlertsData() }, [page, searchText, tagsFilter, typesFilter])
AlertsReloadDeps == <<page, searchText, tagsFilter, typesFilter>>

AlertsReloadEffect_StaleParams ==
    IF AlertsReloadDeps' # AlertsReloadDeps
    THEN loadAlertsData(Params) /\ filterFetches' = filterFetches + 1
    ELSE UNCHANGED <<isLoadingAlerts, inflight, issued, filterFetches>>

AlertsReloadEffect ==
    IF AlertsReloadDeps' # AlertsReloadDeps
    THEN loadAlertsData(Params') /\ filterFetches' = filterFetches + 1
    ELSE UNCHANGED <<isLoadingAlerts, inflight, issued, filterFetches>>

\* useEffect(() => { ...setData(updatedData) }, [alerts, alertTypesIndex])
RowDerivationDeps == <<alerts, alertTypesIndex>>

RowDerivationEffect_NoGuard ==
    IF RowDerivationDeps' # RowDerivationDeps
    THEN data' = updatedData(alerts', alertTypesIndex')
    ELSE data' = data

RowDerivationEffect ==
    IF RowDerivationDeps' # RowDerivationDeps /\ alertTypesIndex'.defined
    THEN data' = updatedData(alerts', alertTypesIndex')
    ELSE data' = data

\* ------------------------------------------------------------ actions ----
\* The first commit: the three effects run in order.  The row derivation
\* returns at its guard, the index being undefined.
Mount ==
    /\ ~mounted
    /\ mounted' = TRUE
    /\ loadAlertsData(Params)
    /\ filterFetches' = filterFetches + 1
    /\ isLoadingAlertTypes' = TRUE
    /\ typesRequest' = "pending"
    /\ typesRequested' = typesRequested + 1
    /\ UNCHANGED <<canDelete, alertTypesIndex, alerts, data, selectedIds,
                   isPerformingAction, totalItemCount, page, searchText,
                   tagsFilter, typesFilter, toasts,
                   changes, resolved, rejected, lastResponse, typesResponse>>

\* what a change of page or filter leaves alone
FilterChangeFrame ==
    UNCHANGED <<canDelete, mounted, alertTypesIndex, alerts, data, selectedIds,
                isLoadingAlertTypes, isPerformingAction, totalItemCount, typesRequest, toasts, typesRequested,
                resolved, rejected, lastResponse, typesResponse>>

\* A change is an onChange whose value differs from the one held.
\* EuiBasicTable onChange: setPage(changedPage)
OnTableChange(changedPage) ==
    /\ mounted /\ issued < MaxFetches
    /\ changedPage # page
    /\ page' = changedPage
    /\ UNCHANGED <<searchText, tagsFilter, typesFilter>>
    /\ changes' = changes + 1
    /\ AlertsReloadEffect
    /\ FilterChangeFrame

\* EuiSearchBar onChange: setSearchText(queryText)
OnSearchChange(queryText) ==
    /\ mounted /\ issued < MaxFetches
    /\ queryText # searchText
    /\ searchText' = queryText
    /\ UNCHANGED <<page, tagsFilter, typesFilter>>
    /\ changes' = changes + 1
    /\ AlertsReloadEffect
    /\ FilterChangeFrame

\* TypeFilter onChange: setTypesFilter(types)
OnTypesFilterChange(types) ==
    /\ mounted /\ issued < MaxFetches
    /\ types # typesFilter
    /\ typesFilter' = types
    /\ UNCHANGED <<page, searchText, tagsFilter>>
    /\ changes' = changes + 1
    /\ AlertsReloadEffect
    /\ FilterChangeFrame

\* TagsFilter onChange: setTagsFilter(tags)
OnTagsFilterChange(tags) ==
    /\ mounted /\ issued < MaxFetches
    /\ tags # tagsFilter
    /\ tagsFilter' = tags
    /\ UNCHANGED <<page, searchText, typesFilter>>
    /\ changes' = changes + 1
    /\ AlertsReloadEffect
    /\ FilterChangeFrame

\* The handlers below call loadAlertsData from the closure of the render
\* that is on screen, so it reads the current page and filters.
\* what a direct call of loadAlertsData leaves alone
ReloadFrame ==
    UNCHANGED <<canDelete, mounted, alertTypesIndex, alerts, data, selectedIds,
                isLoadingAlertTypes, totalItemCount, page, searchText,
                tagsFilter, typesFilter, typesRequest,
                toasts, typesRequested, filterFetches, changes, resolved,
                rejected, lastResponse, typesResponse>>

\* CollapsedItemActions onAlertChanged={() => loadAlertsData()}, one per row
OnAlertChanged ==
    /\ mounted /\ issued < MaxFetches
    /\ data # <<>>
    /\ loadAlertsData(Params)
    /\ UNCHANGED isPerformingAction
    /\ ReloadFrame

\* AlertAdd refreshList={loadAlertsData}
RefreshList ==
    /\ mounted /\ issued < MaxFetches
    /\ loadAlertsData(Params)
    /\ UNCHANGED isPerformingAction
    /\ ReloadFrame

\* BulkActionPopover onPerformingAction={() => setIsPerformingAction(true)}
OnPerformingAction ==
    /\ mounted
    /\ toolsLeft # <<>>
    /\ isPerformingAction' = TRUE
    /\ UNCHANGED <<canDelete, mounted, alertTypesIndex, alerts, data,
                   selectedIds, isLoadingAlertTypes, isLoadingAlerts,
                   totalItemCount, page, searchText, tagsFilter, typesFilter,
                   inflight, typesRequest, toasts, histVars>>

\* BulkActionPopover onActionPerformed: loadAlertsData(); setIsPerformingAction(false)
OnActionPerformed ==
    /\ mounted /\ issued < MaxFetches
    /\ isPerformingAction
    /\ loadAlertsData(Params)
    /\ isPerformingAction' = FALSE
    /\ ReloadFrame

\* selection.onSelectionChange: setSelectedIds(items.map(item => item.id)),
\* the items being rows of the table, in the table's order
OnSelectionChange(rowSet) ==
    /\ mounted
    /\ selection
    /\ rowSet \subseteq 1..Len(data)
    /\ LET picked == SelectSeq([i \in 1..Len(data) |-> [row |-> i, id |-> data[i].id]],
                               LAMBDA r : r.row \in rowSet)
       IN  selectedIds' = [i \in 1..Len(picked) |-> picked[i].id]
    /\ selectedIds' # selectedIds
    /\ UNCHANGED <<canDelete, mounted, alertTypesIndex, alerts, data,
                   isLoadingAlertTypes, isLoadingAlerts, isPerformingAction,
                   totalItemCount, page, searchText, tagsFilter, typesFilter,
                   inflight, typesRequest, toasts, histVars>>

\* what the continuation of a loadAlerts promise leaves alone
CompletionFrame ==
    UNCHANGED <<canDelete, mounted, alertTypesIndex, selectedIds,
                isLoadingAlertTypes, isPerformingAction, page, searchText,
                tagsFilter, typesFilter, typesRequest,
                issued, typesRequested, filterFetches, changes, typesResponse>>

\* try: setAlerts(alertsResponse.data); setTotalItemCount(alertsResponse.total)
loadAlertsDataTry_LatestOnly(fetch, response) ==
    /\ alerts' = IF fetch.id = issued THEN response.data ELSE alerts
    /\ totalItemCount' = IF fetch.id = issued THEN response.total ELSE totalItemCount
    /\ toasts' = toasts

loadAlertsDataTry(fetch, response) ==
    /\ alerts' = response.data
    /\ totalItemCount' = response.total
    /\ toasts' = toasts

\* catch: toastNotifications.addDanger({ title: 'Unable to load alerts' })
loadAlertsDataCatch_ClearsList ==
    /\ toasts' = Append(toasts, UnableToLoadAlertsMessage)
    /\ alerts' = <<>>
    /\ totalItemCount' = 0

loadAlertsDataCatch ==
    /\ toasts' = Append(toasts, UnableToLoadAlertsMessage)
    /\ UNCHANGED <<alerts, totalItemCount>>

\* finally: setIsLoadingAlerts(false)
loadAlertsDataFinally_Skipped ==
    UNCHANGED isLoadingAlerts

loadAlertsDataFinally ==
    isLoadingAlerts' = FALSE

\* a loadAlerts promise resolves, whichever was issued first
LoadAlertsResolves(fetch, response) ==
    /\ fetch \in inflight
    /\ inflight' = inflight \ {fetch}
    /\ loadAlertsDataTry(fetch, response)
    /\ loadAlertsDataFinally
    /\ resolved' = resolved + 1
    /\ lastResponse' = [id |-> fetch.id, params |-> fetch.params,
                        data |-> response.data, total |-> response.total]
    /\ UNCHANGED rejected
    /\ CompletionFrame
    /\ RowDerivationEffect

\* a loadAlerts promise rejects
LoadAlertsRejects(fetch) ==
    /\ fetch \in inflight
    /\ inflight' = inflight \ {fetch}
    /\ loadAlertsDataCatch
    /\ loadAlertsDataFinally
    /\ rejected' = rejected + 1
    /\ UNCHANGED <<resolved, lastResponse>>
    /\ CompletionFrame
    /\ RowDerivationEffect

\* what the continuation of the loadAlertTypes promise leaves alone
TypesCompletionFrame ==
    UNCHANGED <<canDelete, mounted, alerts, selectedIds, isLoadingAlerts,
                isPerformingAction, totalItemCount, page, searchText,
                tagsFilter, typesFilter, inflight, issued,
                typesRequested, filterFetches, changes, resolved, rejected,
                lastResponse>>

\* try: build the index; setAlertTypesIndex(index)
loadAlertTypesTry(alertTypes) ==
    /\ alertTypesIndex' = [defined |-> TRUE, entries |-> BuildIndex(<<>>, alertTypes)]
    /\ toasts' = toasts

\* catch: toastNotifications.addDanger({ title: 'Unable to load alert types' })
loadAlertTypesCatch_EmptyIndex ==
    /\ toasts' = Append(toasts, UnableToLoadAlertTypesMessage)
    /\ alertTypesIndex' = [defined |-> TRUE, entries |-> <<>>]

loadAlertTypesCatch ==
    /\ toasts' = Append(toasts, UnableToLoadAlertTypesMessage)
    /\ UNCHANGED alertTypesIndex

\* the loadAlertTypes promise resolves
LoadAlertTypesResolves(alertTypes) ==
    /\ typesRequest = "pending"
    /\ typesRequest' = "resolved"
    /\ typesResponse' = alertTypes
    /\ loadAlertTypesTry(alertTypes)
    /\ isLoadingAlertTypes' = FALSE
    /\ TypesCompletionFrame
    /\ RowDerivationEffect

\* the loadAlertTypes promise rejects
LoadAlertTypesRejects ==
    /\ typesRequest = "pending"
    /\ typesRequest' = "rejected"
    /\ loadAlertTypesCatch
    /\ isLoadingAlertTypes' = FALSE
    /\ UNCHANGED typesResponse
    /\ TypesCompletionFrame
    /\ RowDerivationEffect

Next ==
    \/ Mount
    \/ \E changedPage \in Pages : OnTableChange(changedPage)
    \/ \E queryText \in SearchTexts : OnSearchChange(queryText)
    \/ \E types \in TypesFilters : OnTypesFilterChange(types)
    \/ \E tags \in TagsFilters : OnTagsFilterChange(tags)
    \/ OnAlertChanged
    \/ RefreshList
    \/ OnPerformingAction
    \/ OnActionPerformed
    \/ \E rowSet \in SUBSET (1..Len(data)) : OnSelectionChange(rowSet)
    \/ \E fetch \in inflight, response \in AlertsResponses :
          LoadAlertsResolves(fetch, response)
    \/ \E fetch \in inflight : LoadAlertsRejects(fetch)
    \/ \E alertTypes \in AlertTypeCatalogs : LoadAlertTypesResolves(alertTypes)
    \/ LoadAlertTypesRejects

Spec == Init /\ [][Next]_vars

\* ------------------------------------------------------------- claims ----
InitialParams ==
    [page |-> [index |-> InitialPageIndex, size |-> InitialPageSize],
     searchText |-> Undefined, tagsFilter |-> <<>>, typesFilter |-> <<>>]

CountOf(title) == Len(SelectSeq(toasts, LAMBDA t : t = title))

\* a loadAlerts promise settled in this step
Completes == resolved' + rejected' = resolved + rejected + 1

\* C1: a rejected alert-list fetch leaves alerts and totalItemCount as they
\* were, adds one 'Unable to load alerts' danger toast and clears
\* isLoadingAlerts, whatever else is in flight; a resolved one clears
\* isLoadingAlerts too.
C1_FailedFetchKeepsData ==
    [][ /\ rejected' = rejected + 1 =>
            /\ alerts' = alerts
            /\ totalItemCount' = totalItemCount
            /\ toasts' = Append(toasts, UnableToLoadAlertsMessage)
            /\ isLoadingAlerts' = FALSE
        /\ resolved' = resolved + 1 => isLoadingAlerts' = FALSE ]_vars

\* a fetch was rejected after another one had put alerts in the list
C1_Witness ==
    /\ rejected >= 1
    /\ resolved >= 1
    /\ alerts # <<>>
    /\ totalItemCount > 0
    /\ CountOf(UnableToLoadAlertsMessage) >= 1
    /\ ~isLoadingAlerts

C3_AppliedInCompletionOrder ==
    [][ /\ issued' > issued => inflight \subseteq inflight'
        /\ resolved' = resolved + 1 =>
            /\ alerts' = lastResponse'.data
            /\ totalItemCount' = lastResponse'.total
            /\ \E fetch \in inflight \ inflight' :
                  /\ fetch.id = lastResponse'.id
                  /\ fetch.params = lastResponse'.params ]_vars

\* nothing is in flight and the list shows the response of the earlier
\* fetch, issued for other parameters than the current ones
C3_Witness ==
    /\ inflight = {}
    /\ resolved >= 2
    /\ lastResponse.id < issued
    /\ lastResponse.params # Params
    /\ alerts = lastResponse.data
    /\ alerts # <<>>
    /\ totalItemCount = lastResponse.total

\* C4: the alert-type catalog is requested once, on mount, and never again;
\* if the request fails the index stays undefined, one 'Unable to load alert
\* types' toast is added and isLoadingAlertTypes is false; if it succeeds
\* the index maps each returned type's id to that type, and it never
\* changes afterwards.
C4_TypesLoadedOnce ==
    /\ [](typesRequested = IF mounted THEN 1 ELSE 0)
    /\ [](typesRequest = "rejected" =>
            /\ ~alertTypesIndex.defined
            /\ CountOf(UnableToLoadAlertTypesMessage) = 1
            /\ ~isLoadingAlertTypes)
    /\ [](typesRequest = "resolved" =>
            /\ alertTypesIndex.defined
            /\ \A i \in 1..Len(typesResponse) :
                  /\ HasOwnEntry(alertTypesIndex, typesResponse[i].id)
                  /\ OwnEntry(alertTypesIndex, typesResponse[i].id) = typesResponse[i]
            /\ \A i \in 1..Len(alertTypesIndex.entries) :
                  \E j \in 1..Len(typesResponse) :
                     typesResponse[j] = alertTypesIndex.entries[i]
            /\ CountOf(UnableToLoadAlertTypesMessage) = 0
            /\ ~isLoadingAlertTypes)
    /\ [][alertTypesIndex.defined => alertTypesIndex' = alertTypesIndex]_vars

\* the catalog request failed, and a page or filter change and alert-list
\* completions followed
C4_Witness ==
    /\ typesRequest = "rejected"
    /\ changes >= 1
    /\ resolved >= 1
    /\ typesRequested = 1

\* C5: while alertTypesIndex is undefined, data is the initial empty list,
\* whatever alert-list fetches have succeeded.
C5_NoRowsBeforeIndex ==
    ~alertTypesIndex.defined => data = <<>>

\* the catalog load failed, alerts were fetched, and the table has no rows
C5_Witness ==
    /\ typesRequest = "rejected"
    /\ alerts # <<>>
    /\ totalItemCount > 0
    /\ data = <<>>

RECURSIVE CommaSeparated(_)
\* the tags with ", " between neighbours, built from the last tag backwards
CommaSeparated(tags) ==
    IF tags = <<>> THEN ""
    ELSE IF Len(tags) = 1 THEN tags[1]
    ELSE CommaSeparated(SubSeq(tags, 1, Len(tags) - 1)) \o ", " \o tags[Len(tags)]

\* the row the derivation is said to make of an alert
RowOf(alert, index) ==
    [id |-> alert.id, name |-> alert.name, tags |-> alert.tags,
     alertTypeId |-> alert.alertTypeId, interval |-> alert.interval,
     tagsText |-> CommaSeparated(alert.tags),
     alertType |-> IF \E i \in 1..Len(index.entries) :
                         index.entries[i].id = alert.alertTypeId
                   THEN (CHOOSE e \in { index.entries[i] : i \in 1..Len(index.entries) } :
                            e.id = alert.alertTypeId).name
                   ELSE alert.alertTypeId]

\* C6: once alertTypesIndex is defined, data is one row per alert, in order,
\* with the alert's fields, tagsText = the tags joined by ", " and
\* alertType = the type's name when alertTypeId is a key of the index, the
\* raw alertTypeId otherwise.
C6_RowsAreDerivation ==
    alertTypesIndex.defined =>
        /\ Len(data) = Len(alerts)
        /\ \A i \in 1..Len(alerts) : data[i] = RowOf(alerts[i], alertTypesIndex)

\* the same, for the alerts whose alertTypeId is not the name of a property
\* that object literals inherit
C6_RowsOfOrdinaryTypeIds ==
    alertTypesIndex.defined =>
        /\ Len(data) = Len(alerts)
        /\ \A i \in 1..Len(alerts) :
              alerts[i].alertTypeId \notin DOMAIN ObjectPrototypeName =>
                  data[i] = RowOf(alerts[i], alertTypesIndex)

\* C7: the bulk-action control is shown iff canDelete and selectedIds is not
\* empty; without delete capability selectedIds stays empty.
C7_BulkControlShown ==
    /\ (toolsLeft # <<>>) <=> (canDelete /\ Len(selectedIds) >= 1)
    /\ toolsLeft # <<>> =>
          Len(toolsLeft) = 1 /\ toolsLeft[1].component = "BulkActionPopover"
    /\ ~canDelete => selectedIds = <<>>

\* rows are selected and the control is shown
C7_Witness ==
    /\ canDelete
    /\ Len(selectedIds) >= 1
    /\ toolsLeft # <<>>
    /\ toolsLeft[1].selectedItems # <<>>

\* C8: after an alert-list reload completes, selectedIds is the empty set.
C8_SelectionClearedOnReload ==
    [][ Completes => selectedIds' = <<>> ]_vars

\* C9: the type filter's options are one option {value: id, name: name} per
\* entry of alertTypesIndex, none while it is undefined, ordered by name
\* ascending.
C9_TypeOptionsSortedFromIndex ==
    LET options == TypeFilterOptions
        entries == alertTypesIndex.entries
    IN  /\ Len(options) = Len(entries)
        /\ { options[i] : i \in 1..Len(options) } =
           { [value |-> entries[i].id, name |-> entries[i].name] : i \in 1..Len(entries) }
        /\ \A i, j \in 1..Len(options) :
              i < j => LocaleRank(options[i].name) <= LocaleRank(options[j].name)
        /\ ~alertTypesIndex.defined => options = <<>>

\* the index holds two types that were not returned in name order, and
\* alert pages have been loaded and a fetch has failed meanwhile
C9_Witness ==
    /\ alertTypesIndex.defined
    /\ Len(alertTypesIndex.entries) >= 2
    /\ LocaleRank(alertTypesIndex.entries[1].name) >
       LocaleRank(alertTypesIndex.entries[2].name)
    /\ alerts # <<>>
    /\ rejected >= 1

\* C10: isLoadingAlerts is true iff at least one alert-list fetch is in
\* flight.
C10_FlagTracksInFlight ==
    isLoadingAlerts <=> inflight # {}

\* C10, as amended: issuing a fetch sets isLoadingAlerts and every completion
\* clears it, so the flag is true only while a fetch is in flight, but it is
\* false after a completion even when other fetches are still in flight.
C10_FlagFollowsLastEvent ==
    /\ [](isLoadingAlerts => inflight # {})
    /\ [][issued' = issued + 1 => isLoadingAlerts' = TRUE]_vars
    /\ [][Completes => isLoadingAlerts' = FALSE]_vars

\* of two overlapping fetches one has completed: the other is in flight and
\* the flag is off
C10_Witness ==
    /\ issued >= 2
    /\ resolved + rejected >= 1
    /\ inflight # {}
    /\ ~isLoadingAlerts

====
